---- MODULE Spec2Model ----
(***************************************************************************)
(* The quiz application: App (question store, view state, configuration,   *)
(* selection), QuizSetup (range/mode form and its validation), QuizScreen  *)
(* (the session runner: position, answers, flags, auto-advance timer,     *)
(* confirmation dialog), the browser's pending setTimeout callbacks, the   *)
(* 'quizAnswers' key of localStorage, and ResultsScreen's one-time read.   *)
(*                                                                         *)
(* One action is one event handler (or timer callback) together with the   *)
(* React commit it causes: the state updates of the handler, then the      *)
(* cleanups of the effects whose dependencies changed, then the effects.   *)
(* A component that is not mounted keeps no state: its variables hold the  *)
(* values of its useState initialisers.                                    *)
(*                                                                         *)
(* Left out: question text and option texts (presentation only) and the    *)
(* timestamp field of an answer (Date.now(), never read).                  *)
(***************************************************************************)
EXTENDS Integers, Sequences, FiniteSets, TLC

VARIABLES
    questions,          \* App: the Question Store
    quizState,          \* App: "setup" | "quiz" | "results"
    quizConfig,         \* App: Null or Some(config)
    selectedQuestions,  \* App: the SelectedQuestionSet
    loading,            \* App: TRUE until the fetch settles
    mode,               \* QuizSetup
    shuffle,            \* QuizSetup
    startQuestion,      \* QuizSetup
    endQuestion,        \* QuizSetup
    error,              \* QuizSetup: Null or Some(message)
    currentIndex,       \* QuizScreen
    answers,            \* QuizScreen: question id -> UserAnswer
    showConfirmDialog,  \* QuizScreen
    flaggedQuestions,   \* QuizScreen: set of question ids
    autoAdvanceTimer,   \* QuizScreen: NoTimer, or Handle (of the timer created last)
    timers,             \* browser: the setTimeout callbacks not yet run or cleared
    localStorage,       \* browser: Null (no 'quizAnswers' key) or Some(mapping)
    resultsAnswers,     \* ResultsScreen: the mapping read when it mounted
    lastOp,             \* history: the handler that ran last
    cancelled           \* history: the last step cleared a pending callback

vars == <<questions, quizState, quizConfig, selectedQuestions, loading,
          mode, shuffle, startQuestion, endQuestion, error,
          currentIndex, answers, showConfirmDialog, flaggedQuestions,
          autoAdvanceTimer, timers, localStorage, resultsAnswers, lastOp,
          cancelled>>

appVars == <<questions, quizState, quizConfig, selectedQuestions, loading>>
setupVars == <<mode, shuffle, startQuestion, endQuestion, error>>
screenVars == <<currentIndex, answers, showConfirmDialog, flaggedQuestions,
                autoAdvanceTimer>>

(***************************************************************************)
(* Bounds of the model.                                                    *)
(***************************************************************************)
\* the largest number of questions the fetched asset holds
MaxQuestions == 5

\* the largest store whose start is taken as a function of the form alone
MaxBank == 10
\* the largest store whose selections are shuffled with every draw
MaxShuffled == 6
\* the largest session whose results are scored for every number of answers
MaxScored == 40

\* the position at which the user toggles the flag
FlagPositions == {3}

(***************************************************************************)
(* Program constants.                                                      *)
(***************************************************************************)
DefaultEnd == 50
MinSelected == 5

NoTimer == "null"
Handle == "handle"

Options == {"A", "B", "C", "D"}

\* null and a present value (a config, an error message, a stored string)
Null == <<>>
Some(x) == <<x>>

Min(a, b) == IF a < b THEN a ELSE b
Max(a, b) == IF a > b THEN a ELSE b

(***************************************************************************)
(* The asset: n Question records. Ids differ from positions, and the       *)
(* correct options run through A, B, C, D.                                 *)
(***************************************************************************)
OptionSeq == <<"A", "B", "C", "D">>

Question(i) == [id |-> 100 + i, correctAnswer |-> OptionSeq[((i - 1) % 4) + 1]]

QuestionBank(n) == [i \in 1..n |-> Question(i)]

\* the options the user picks for a question: the right one and a wrong one
OptionsTried(q) ==
    {q.correctAnswer, IF q.correctAnswer = "A" THEN "B" ELSE "A"}

\* array.slice(from, to) with 0 <= from and to <= length, 0-based half-open
Slice(array, from, to) ==
    IF to <= from THEN <<>> ELSE SubSeq(array, from + 1, to)

(***************************************************************************)
(* shuffleArray. rnd[i] is the value of Math.floor(Math.random() * (i+1))  *)
(* drawn in the iteration for index i, so rnd[i] \in 0..i. JS index k is   *)
(* position k + 1 of the sequence.                                         *)
(***************************************************************************)
\* a swap that loses the element at i: shuffled[i] = shuffled[j] only
SwapOverwrite(s, i, j) ==
    [k \in 1..Len(s) |-> IF k = i + 1 THEN s[j + 1] ELSE s[k]]

Swap(s, i, j) ==
    [k \in 1..Len(s) |-> IF k = i + 1 THEN s[j + 1]
                         ELSE IF k = j + 1 THEN s[i + 1] ELSE s[k]]

RECURSIVE ShuffleLoop(_, _, _)
ShuffleLoop(shuffled, i, rnd) ==
    IF i > 0 THEN ShuffleLoop(Swap(shuffled, i, rnd[i]), i - 1, rnd)
    ELSE shuffled

shuffleArray(array, rnd) == ShuffleLoop(array, Len(array) - 1, rnd)

\* every sequence of draws Math.random can produce for an array of n elements
RECURSIVE AllRandom(_)
AllRandom(n) ==
    IF n <= 1 THEN {<<>>}
    ELSE {Append(rnd, j) : rnd \in AllRandom(n - 1), j \in 0..(n - 1)}

\* the draws explored in the full flow: Math.random() below 1 / n every time
SampleRandom(n) == {[i \in 1..(n - 1) |-> 0]}

(***************************************************************************)
(* QuizSetup.handleStart's validation: the message set, or Null.           *)
(***************************************************************************)
\* the validation without the "start <= end" rule
ValidationErrorNoOrder(start, end, totalQuestions) ==
    IF start < 1 \/ start > totalQuestions
    THEN Some(<<"Start question must be between 1 and", totalQuestions>>)
    ELSE IF end < 1 \/ end > totalQuestions
    THEN Some(<<"End question must be between 1 and", totalQuestions>>)
    ELSE IF end - start + 1 < MinSelected
    THEN Some(<<"Please select at least 5 questions">>)
    ELSE Null

\* the validation without the minimum of 5 questions
ValidationErrorNoMinimum(start, end, totalQuestions) ==
    IF start < 1 \/ start > totalQuestions
    THEN Some(<<"Start question must be between 1 and", totalQuestions>>)
    ELSE IF end < 1 \/ end > totalQuestions
    THEN Some(<<"End question must be between 1 and", totalQuestions>>)
    ELSE IF start > end
    THEN Some(<<"Start question must be less than or equal to end question">>)
    ELSE Null

ValidationError(start, end, totalQuestions) ==
    IF start < 1 \/ start > totalQuestions
    THEN Some(<<"Start question must be between 1 and", totalQuestions>>)
    ELSE IF end < 1 \/ end > totalQuestions
    THEN Some(<<"End question must be between 1 and", totalQuestions>>)
    ELSE IF start > end
    THEN Some(<<"Start question must be less than or equal to end question">>)
    ELSE IF end - start + 1 < MinSelected
    THEN Some(<<"Please select at least 5 questions">>)
    ELSE Null

\* the range filter with the 1-based start used as a 0-based index
FilterRangeFromStart(qs, config) ==
    LET startIndex == Max(0, config.startQuestion)
        endIndex == Min(Len(qs), config.endQuestion)
    IN  Slice(qs, startIndex, endIndex)

\* App.startQuiz's range filter
FilterRange(qs, config) ==
    LET startIndex == Max(0, config.startQuestion - 1)
        endIndex == Min(Len(qs), config.endQuestion)
    IN  Slice(qs, startIndex, endIndex)

(***************************************************************************)
(* Mount-time state of the three screens.                                  *)
(***************************************************************************)
SetupMounted(totalQuestions) ==
    /\ mode' = "practice"
    /\ shuffle' = FALSE
    /\ startQuestion' = 1
    /\ endQuestion' = Min(DefaultEnd, totalQuestions)
    /\ error' = Null

\* a QuizScreen that keeps its state from one mount to the next
ScreenKept ==
    UNCHANGED <<currentIndex, answers, showConfirmDialog, flaggedQuestions,
                autoAdvanceTimer>>

ScreenMounted ==
    /\ currentIndex' = 0
    /\ answers' = <<>>
    /\ showConfirmDialog' = FALSE
    /\ flaggedQuestions' = {}
    /\ autoAdvanceTimer' = NoTimer

\* ResultsScreen's useMemo(..., []): localStorage.getItem and JSON.parse
ReadStore(store) == IF store = Null THEN <<>> ELSE store[1]

Init ==
    /\ questions = <<>>
    /\ quizState = "setup"
    /\ quizConfig = Null
    /\ selectedQuestions = <<>>
    /\ loading = TRUE
    /\ mode = "practice"
    /\ shuffle = FALSE
    /\ startQuestion = 1
    /\ endQuestion = 0
    /\ error = Null
    /\ currentIndex = 0
    /\ answers = <<>>
    /\ showConfirmDialog = FALSE
    /\ flaggedQuestions = {}
    /\ autoAdvanceTimer = NoTimer
    /\ timers = {}
    /\ localStorage = Null
    /\ resultsAnswers = <<>>
    /\ lastOp = "init"
    /\ cancelled = FALSE

(***************************************************************************)
(* App: the load effect. QuizSetup mounts when loading ends.               *)
(***************************************************************************)
LoadSuccess ==
    /\ loading
    /\ \E n \in 0..MaxQuestions :
          /\ questions' = QuestionBank(n)
          /\ SetupMounted(n)
    /\ loading' = FALSE
    /\ lastOp' = "load"
    /\ cancelled' = FALSE
    /\ UNCHANGED <<quizState, quizConfig, selectedQuestions, screenVars,
                   timers, localStorage, resultsAnswers>>

\* a catch handler without its setLoading(false)
LoadFailureKeepsLoading ==
    /\ loading
    /\ lastOp # "loadFailed"
    /\ lastOp' = "loadFailed"
    /\ cancelled' = FALSE
    /\ UNCHANGED <<appVars, setupVars, screenVars, timers, localStorage,
                   resultsAnswers>>

LoadFailure ==
    /\ loading
    /\ loading' = FALSE
    /\ SetupMounted(Len(questions))
    /\ lastOp' = "loadFailed"
    /\ cancelled' = FALSE
    /\ UNCHANGED <<questions, quizState, quizConfig, selectedQuestions,
                   screenVars, timers, localStorage, resultsAnswers>>

(***************************************************************************)
(* QuizSetup: the form controls.                                           *)
(***************************************************************************)
SetupShown == ~loading /\ quizState = "setup"

SetMode ==
    /\ SetupShown
    /\ \E m \in {"practice", "exam"} : mode' = m
    /\ lastOp' = "configure"
    /\ cancelled' = FALSE
    /\ UNCHANGED <<appVars, shuffle, startQuestion, endQuestion, error,
                   screenVars, timers, localStorage, resultsAnswers>>

SetShuffle ==
    /\ SetupShown
    /\ \E b \in BOOLEAN : shuffle' = b
    /\ lastOp' = "configure"
    /\ cancelled' = FALSE
    /\ UNCHANGED <<appVars, mode, startQuestion, endQuestion, error,
                   screenVars, timers, localStorage, resultsAnswers>>

SlideStart ==
    /\ SetupShown
    /\ \E v \in 1..Len(questions) :
          /\ startQuestion' = v
          /\ endQuestion' = IF v > endQuestion THEN v ELSE endQuestion
    /\ lastOp' = "configure"
    /\ cancelled' = FALSE
    /\ UNCHANGED <<appVars, mode, shuffle, error,
                   screenVars, timers, localStorage, resultsAnswers>>

SlideEnd ==
    /\ SetupShown
    /\ \E v \in 1..Len(questions) :
          /\ endQuestion' = v
          /\ startQuestion' = IF v < startQuestion THEN v ELSE startQuestion
    /\ lastOp' = "configure"
    /\ cancelled' = FALSE
    /\ UNCHANGED <<appVars, mode, shuffle, error,
                   screenVars, timers, localStorage, resultsAnswers>>

(***************************************************************************)
(* QuizSetup.handleStart and, when validation passes, App.startQuiz.       *)
(* QuizSetup unmounts and QuizScreen mounts.                               *)
(***************************************************************************)
startQuiz(config, random) ==
    LET filtered == FilterRange(questions, config)
    IN  /\ quizConfig' = Some(config)
        /\ \E rnd \in (IF config.shuffle THEN random ELSE {<<>>}) :
              selectedQuestions' =
                  IF config.shuffle THEN shuffleArray(filtered, rnd) ELSE filtered
        /\ quizState' = "quiz"

\* draws: the sequences of random draws explored, for a selection of n
RandomDraws(everyDraw, n) == IF everyDraw THEN AllRandom(n) ELSE SampleRandom(n)

handleStart(everyDraw) ==
    /\ SetupShown
    /\ LET invalid == ValidationError(startQuestion, endQuestion, Len(questions))
       IN  IF invalid # Null
           THEN /\ error' = invalid
                /\ lastOp' = "startRejected"
                /\ cancelled' = FALSE
                /\ UNCHANGED <<appVars, mode, shuffle, startQuestion, endQuestion,
                               screenVars, timers, localStorage, resultsAnswers>>
           ELSE /\ startQuiz([mode |-> mode, shuffle |-> shuffle,
                              startQuestion |-> startQuestion,
                              endQuestion |-> endQuestion],
                             RandomDraws(everyDraw, endQuestion - startQuestion + 1))
                /\ SetupMounted(0)
                /\ ScreenMounted
                /\ lastOp' = "start"
                /\ cancelled' = FALSE
                /\ UNCHANGED <<questions, loading, timers, localStorage,
                               resultsAnswers>>

HandleStart == handleStart(FALSE)

(***************************************************************************)
(* QuizScreen: helpers.                                                    *)
(***************************************************************************)
QuizShown == ~loading /\ quizState = "quiz" /\ quizConfig # Null

ResultsShown == ~loading /\ quizState = "results" /\ quizConfig # Null

totalQuestions == Len(selectedQuestions)

\* questions[currentIndex]
currentQuestion == selectedQuestions[currentIndex + 1]

answeredCount == Cardinality(DOMAIN answers)

allAnswered == answeredCount = totalQuestions

isAnswered == currentQuestion.id \in DOMAIN answers

\* an update that forgets to spread the previous answers
PutAlone(prev, id, record) == [k \in {id} |-> record]

\* { ...prev, [id]: record }
Put(prev, id, record) ==
    [k \in (DOMAIN prev) \cup {id} |-> IF k = id THEN record ELSE prev[k]]

(***************************************************************************)
(* Timer handles. The program compares a handle with nothing but the one   *)
(* held in autoAdvanceTimer (clearTimeout(autoAdvanceTimer)), so a pending *)
(* callback records whether its handle is the held one: setTimeout followed *)
(* by setAutoAdvanceTimer makes the new callback the held one and every    *)
(* older callback not held.                                                *)
(***************************************************************************)
\* clearTimeout(autoAdvanceTimer): a handle that is not pending clears nothing
ClearTimeout(pending) == {t \in pending : ~t.held}

\* a setTimeout whose callback is never registered
SetTimeoutDropped(pending, closure) ==
    {[t EXCEPT !.held = FALSE] : t \in pending}

\* setTimeout(callback) followed by setAutoAdvanceTimer(timer)
SetTimeout(pending, closure) ==
    {[t EXCEPT !.held = FALSE] : t \in pending} \cup {closure}

\* a save that merges into the stored mapping instead of replacing it
SaveEffectMerge(store, current) ==
    IF Cardinality(DOMAIN current) > 0
    THEN Some([k \in (DOMAIN ReadStore(store)) \cup (DOMAIN current) |->
                 IF k \in DOMAIN current THEN current[k] ELSE ReadStore(store)[k]])
    ELSE store

\* a save effect that never runs
SaveEffectNever(store, current) == store

\* the effect "save answers to localStorage whenever they change"
SaveEffect(store, current) ==
    IF Cardinality(DOMAIN current) > 0 THEN Some(current) ELSE store

\* the cleanup of the effect "also save when component unmounts": it runs
\* with the answers of the render that set it up
SaveCleanup(store, rendered) ==
    IF Cardinality(DOMAIN rendered) > 0 THEN Some(rendered) ELSE store

\* a timer cleanup that clears nothing
TimerCleanupNever(pending, rendered) == pending

\* the cleanup of the effect "clear timer when component unmounts or
\* question changes": it runs with the handle of the render that set it up
TimerCleanup(pending, rendered) ==
    IF rendered # NoTimer THEN ClearTimeout(pending) ELSE pending

(***************************************************************************)
(* QuizScreen.handleAnswer. The option buttons are disabled in practice    *)
(* mode once the question is answered, and covered while the dialog is     *)
(* open. The commit runs both cleanups (answers and autoAdvanceTimer       *)
(* changed), then the save effect.                                         *)
(***************************************************************************)
\* option buttons that are never disabled
optionNeverDisabled == FALSE

\* disabled={mode === 'practice' && isAnswered}
optionDisabled == quizConfig[1].mode = "practice" /\ isAnswered

\* a handleAnswer that takes the first option for the correct one
handleAnswerFirstOption(option) ==
    LET isCorrect == option = OptionSeq[1]
        record == [questionId |-> currentQuestion.id,
                   selectedOption |-> option,
                   isCorrect |-> isCorrect]
        callback == [held |-> TRUE, currentIndex |-> currentIndex,
                     totalQuestions |-> totalQuestions]
    IN  /\ answers' = Put(answers, currentQuestion.id, record)
        /\ autoAdvanceTimer' = Handle
        /\ timers' = SetTimeout(TimerCleanup(timers, autoAdvanceTimer), callback)
        /\ localStorage' = SaveEffect(SaveCleanup(localStorage, answers), answers')

\* a handleAnswer that files the record under the position
handleAnswerKeyedByIndex(option) ==
    LET isCorrect == option = currentQuestion.correctAnswer
        record == [questionId |-> currentQuestion.id,
                   selectedOption |-> option,
                   isCorrect |-> isCorrect]
        callback == [held |-> TRUE, currentIndex |-> currentIndex,
                     totalQuestions |-> totalQuestions]
    IN  /\ answers' = Put(answers, currentIndex, record)
        /\ autoAdvanceTimer' = Handle
        /\ timers' = SetTimeout(TimerCleanup(timers, autoAdvanceTimer), callback)
        /\ localStorage' = SaveEffect(SaveCleanup(localStorage, answers), answers')

\* a handleAnswer whose commit does not run the timer cleanup
handleAnswerKeepsEarlier(option) ==
    LET isCorrect == option = currentQuestion.correctAnswer
        record == [questionId |-> currentQuestion.id,
                   selectedOption |-> option,
                   isCorrect |-> isCorrect]
        callback == [held |-> TRUE, currentIndex |-> currentIndex,
                     totalQuestions |-> totalQuestions]
    IN  /\ answers' = Put(answers, currentQuestion.id, record)
        /\ autoAdvanceTimer' = Handle
        /\ timers' = SetTimeout(timers, callback)
        /\ localStorage' = SaveEffect(SaveCleanup(localStorage, answers), answers')

handleAnswer(option) ==
    LET isCorrect == option = currentQuestion.correctAnswer
        record == [questionId |-> currentQuestion.id,
                   selectedOption |-> option,
                   isCorrect |-> isCorrect]
        callback == [held |-> TRUE, currentIndex |-> currentIndex,
                     totalQuestions |-> totalQuestions]
    IN  /\ answers' = Put(answers, currentQuestion.id, record)
        /\ autoAdvanceTimer' = Handle
        /\ timers' = SetTimeout(TimerCleanup(timers, autoAdvanceTimer), callback)
        /\ localStorage' = SaveEffect(SaveCleanup(localStorage, answers), answers')

HandleAnswer ==
    /\ QuizShown
    /\ ~showConfirmDialog
    /\ ~optionDisabled
    /\ \E option \in OptionsTried(currentQuestion) : handleAnswer(option)
    /\ lastOp' = "answer"
    /\ cancelled' = (TimerCleanup(timers, autoAdvanceTimer) # timers)
    /\ UNCHANGED <<appVars, setupVars, currentIndex, showConfirmDialog,
                   flaggedQuestions, resultsAnswers>>

(***************************************************************************)
(* The auto-advance callback of a pending timer runs. It tests the         *)
(* currentIndex and totalQuestions of the render that created it and       *)
(* updates the state functionally. A changed position makes the commit run *)
(* the timer cleanup. The callback of an unmounted QuizScreen changes      *)
(* nothing.                                                                *)
(***************************************************************************)
\* a callback whose test lets the last position advance too
timerCallbackPastLast(t) ==
    IF QuizShown /\ t.currentIndex < t.totalQuestions
    THEN /\ currentIndex' = currentIndex + 1
         /\ timers' = TimerCleanup(timers \ {t}, autoAdvanceTimer)
    ELSE /\ currentIndex' = currentIndex
         /\ timers' = timers \ {t}

timerCallback(t) ==
    IF QuizShown /\ t.currentIndex < t.totalQuestions - 1
    THEN /\ currentIndex' = currentIndex + 1
         /\ timers' = TimerCleanup(timers \ {t}, autoAdvanceTimer)
    ELSE /\ currentIndex' = currentIndex
         /\ timers' = timers \ {t}

TimerFire ==
    /\ \E t \in timers : timerCallback(t)
    /\ lastOp' = "autoAdvance"
    /\ cancelled' = (Cardinality(timers \ timers') > 1)
    /\ UNCHANGED <<appVars, setupVars, answers, showConfirmDialog,
                   flaggedQuestions, autoAdvanceTimer, localStorage,
                   resultsAnswers>>

(***************************************************************************)
(* QuizScreen: previous, skip, the navigator dots, the flag.               *)
(***************************************************************************)
handlePrevious ==
    IF currentIndex > 0
    THEN /\ currentIndex' = currentIndex - 1
         /\ timers' = TimerCleanup(timers, autoAdvanceTimer)
    ELSE UNCHANGED <<currentIndex, timers>>

\* the button is disabled at the first question
HandlePrevious ==
    /\ QuizShown
    /\ ~showConfirmDialog
    /\ currentIndex # 0
    /\ handlePrevious
    /\ lastOp' = "previous"
    /\ cancelled' = (timers \ timers' # {})
    /\ UNCHANGED <<appVars, setupVars, answers, showConfirmDialog,
                   flaggedQuestions, autoAdvanceTimer, localStorage,
                   resultsAnswers>>

\* a skip without its test of the last question
handleSkipUnguarded ==
    /\ currentIndex' = currentIndex + 1
    /\ timers' = TimerCleanup(timers, autoAdvanceTimer)

handleSkip ==
    IF currentIndex < totalQuestions - 1
    THEN /\ currentIndex' = currentIndex + 1
         /\ timers' = TimerCleanup(timers, autoAdvanceTimer)
    ELSE UNCHANGED <<currentIndex, timers>>

\* the button is rendered except at the last question
HandleSkip ==
    /\ QuizShown
    /\ ~showConfirmDialog
    /\ currentIndex < totalQuestions - 1
    /\ handleSkip
    /\ lastOp' = "skip"
    /\ cancelled' = (timers \ timers' # {})
    /\ UNCHANGED <<appVars, setupVars, answers, showConfirmDialog,
                   flaggedQuestions, autoAdvanceTimer, localStorage,
                   resultsAnswers>>

\* a navigator dot that leaves the timer to the cleanup of the effect
jumpToWithoutClear(idx) ==
    /\ currentIndex' = idx
    /\ timers' = IF idx # currentIndex
                 THEN TimerCleanup(timers, autoAdvanceTimer) ELSE timers

\* the onClick of navigator dot idx: clearTimeout, then setCurrentIndex(idx)
jumpTo(idx) ==
    LET cleared == IF autoAdvanceTimer # NoTimer
                   THEN ClearTimeout(timers) ELSE timers
    IN  /\ currentIndex' = idx
        /\ timers' = IF idx # currentIndex
                     THEN TimerCleanup(cleared, autoAdvanceTimer) ELSE cleared

JumpTo ==
    /\ QuizShown
    /\ ~showConfirmDialog
    /\ \E idx \in 0..(totalQuestions - 1) : jumpTo(idx)
    /\ lastOp' = "jump"
    /\ cancelled' = (timers \ timers' # {})
    /\ UNCHANGED <<appVars, setupVars, answers, showConfirmDialog,
                   flaggedQuestions, autoAdvanceTimer, localStorage,
                   resultsAnswers>>

\* a flag that can be set and never cleared
toggleFlagAddOnly ==
    flaggedQuestions' = flaggedQuestions \cup {currentQuestion.id}

toggleFlag ==
    flaggedQuestions' =
        IF currentQuestion.id \in flaggedQuestions
        THEN flaggedQuestions \ {currentQuestion.id}
        ELSE flaggedQuestions \cup {currentQuestion.id}

ToggleFlag ==
    /\ QuizShown
    /\ ~showConfirmDialog
    /\ currentIndex \in FlagPositions
    /\ toggleFlag
    /\ lastOp' = "flag"
    /\ cancelled' = FALSE
    /\ UNCHANGED <<appVars, setupVars, currentIndex, answers, showConfirmDialog,
                   autoAdvanceTimer, timers, localStorage, resultsAnswers>>

(***************************************************************************)
(* App.finishQuiz, reached through onFinish. ResultsScreen renders and     *)
(* reads the store as the handler left it; then the commit unmounts        *)
(* QuizScreen and both its cleanups run with the last render's values.     *)
(***************************************************************************)
\* a finishQuiz that drops the selection
finishQuizDropsSelection(pending, store) ==
    /\ quizState' = "results"
    /\ resultsAnswers' = ReadStore(store)
    /\ timers' = TimerCleanup(pending, autoAdvanceTimer)
    /\ localStorage' = SaveCleanup(store, answers)
    /\ ScreenMounted
    /\ selectedQuestions' = <<>>
    /\ UNCHANGED <<questions, quizConfig, loading, setupVars>>

finishQuiz(pending, store) ==
    /\ quizState' = "results"
    /\ resultsAnswers' = ReadStore(store)
    /\ timers' = TimerCleanup(pending, autoAdvanceTimer)
    /\ localStorage' = SaveCleanup(store, answers)
    /\ ScreenMounted
    /\ UNCHANGED <<questions, quizConfig, selectedQuestions, loading, setupVars>>

\* handleFinishClick without its clearTimeout
handleFinishClickKeepsTimer ==
    IF ~allAnswered
    THEN /\ showConfirmDialog' = TRUE
         /\ timers' = timers
         /\ localStorage' = Some(answers)
         /\ lastOp' = "finishRequested"
         /\ cancelled' = FALSE
         /\ UNCHANGED <<appVars, setupVars, currentIndex, answers,
                        flaggedQuestions, autoAdvanceTimer, resultsAnswers>>
    ELSE /\ finishQuiz(timers, Some(answers))
         /\ lastOp' = "finish"
         /\ cancelled' = (timers \ timers' # {})

\* handleFinishClick without the test of allAnswered: it always finishes
handleFinishClickNoDialog ==
    LET cleared == IF autoAdvanceTimer # NoTimer
                   THEN ClearTimeout(timers) ELSE timers
    IN  /\ finishQuiz(cleared, Some(answers))
        /\ lastOp' = "finish"
        /\ cancelled' = (timers \ timers' # {})

\* handleFinishClick without its localStorage.setItem
handleFinishClickNoSave ==
    LET cleared == IF autoAdvanceTimer # NoTimer
                   THEN ClearTimeout(timers) ELSE timers
    IN  IF ~allAnswered
        THEN /\ showConfirmDialog' = TRUE
             /\ timers' = cleared
             /\ localStorage' = localStorage
             /\ lastOp' = "finishRequested"
             /\ cancelled' = (timers \ timers' # {})
             /\ UNCHANGED <<appVars, setupVars, currentIndex, answers,
                            flaggedQuestions, autoAdvanceTimer, resultsAnswers>>
        ELSE /\ finishQuiz(cleared, localStorage)
             /\ lastOp' = "finish"
             /\ cancelled' = (timers \ timers' # {})

\* QuizScreen.handleFinishClick
handleFinishClick ==
    LET cleared == IF autoAdvanceTimer # NoTimer
                   THEN ClearTimeout(timers) ELSE timers
        saved == Some(answers)
    IN  IF ~allAnswered
        THEN /\ showConfirmDialog' = TRUE
             /\ timers' = cleared
             /\ localStorage' = saved
             /\ lastOp' = "finishRequested"
             /\ cancelled' = (timers \ timers' # {})
             /\ UNCHANGED <<appVars, setupVars, currentIndex, answers,
                            flaggedQuestions, autoAdvanceTimer, resultsAnswers>>
        ELSE /\ finishQuiz(cleared, saved)
             /\ lastOp' = "finish"
             /\ cancelled' = (timers \ timers' # {})

\* the button is rendered at the last question only
\* a Finish button shown at every position
HandleFinishClickAnywhere ==
    /\ QuizShown
    /\ ~showConfirmDialog
    /\ handleFinishClick

HandleFinishClick ==
    /\ QuizShown
    /\ ~showConfirmDialog
    /\ ~(currentIndex < totalQuestions - 1)
    /\ handleFinishClick

\* the dialog's "Continue Quiz" button (and its onOpenChange)
DialogContinue ==
    /\ QuizShown
    /\ showConfirmDialog
    /\ showConfirmDialog' = FALSE
    /\ lastOp' = "continue"
    /\ cancelled' = FALSE
    /\ UNCHANGED <<appVars, setupVars, currentIndex, answers, flaggedQuestions,
                   autoAdvanceTimer, timers, localStorage, resultsAnswers>>

\* the dialog's "Finish Now" button
DialogFinishNow ==
    /\ QuizShown
    /\ showConfirmDialog
    /\ finishQuiz(timers, localStorage)
    /\ lastOp' = "finishNow"
    /\ cancelled' = (timers \ timers' # {})

(***************************************************************************)
(* App.restartQuiz, from ResultsScreen's button. ResultsScreen unmounts    *)
(* and QuizSetup mounts.                                                   *)
(***************************************************************************)
\* a restart that shows the quiz again
restartQuizIntoQuiz ==
    /\ quizState' = "quiz"
    /\ quizConfig' = Null
    /\ selectedQuestions' = <<>>

restartQuiz ==
    /\ quizState' = "setup"
    /\ quizConfig' = Null
    /\ selectedQuestions' = <<>>

RestartQuiz ==
    /\ ~loading
    /\ quizState = "results"
    /\ quizConfig # Null
    /\ restartQuiz
    /\ SetupMounted(Len(questions))
    /\ resultsAnswers' = <<>>
    /\ lastOp' = "restart"
    /\ cancelled' = FALSE
    /\ UNCHANGED <<questions, loading, screenVars, timers, localStorage>>

(***************************************************************************)
(* ResultsScreen's Math.round((correct / total) * 100). JavaScript numbers *)
(* are IEEE-754 doubles: the quotient and the product are each rounded to  *)
(* 53 significant bits, ties to even. A significand is a sequence of bits, *)
(* most significant first, standing for the integer it spells; the value   *)
(* is that integer divided by 2^scale.                                     *)
(***************************************************************************)
Precision == 53

Front(bits) == SubSeq(bits, 1, Len(bits) - 1)

Zeros(n) == [k \in 1..n |-> 0]

\* the bits incremented by one
RECURSIVE Increment(_)
Increment(bits) ==
    IF bits = <<>> THEN <<1>>
    ELSE IF bits[Len(bits)] = 0 THEN Front(bits) \o <<1>>
    ELSE Increment(Front(bits)) \o <<0>>

\* round to nearest, ties to even: cmp is the discarded part against half
\* a unit in the last place kept (-1 below, 0 equal, 1 above)
RoundNearestEven(bits, cmp) ==
    IF cmp > 0 \/ (cmp = 0 /\ bits[Len(bits)] = 1) THEN Increment(bits)
    ELSE bits

\* the number of zero bits of num / den (0 < num < den) after the binary
\* point and before its first one bit
RECURSIVE LeadingZeros(_, _)
LeadingZeros(num, den) ==
    IF 2 * num >= den THEN 0 ELSE 1 + LeadingZeros(2 * num, den)

\* 2^k modulo den, by repeated squaring
RECURSIVE Pow2Mod(_, _)
Pow2Mod(k, den) ==
    IF k = 0 THEN 1 % den
    ELSE LET half == Pow2Mod(k \div 2, den)
             square == (half * half) % den
         IN  IF k % 2 = 1 THEN (2 * square) % den ELSE square

\* the remainder of the long division of rem / den (rem < den) after k bits
DivRem(rem, den, k) == (rem * Pow2Mod(k, den)) % den

\* the next k bits of rem / den (rem < den), by long division
DivBits(rem, den, k) ==
    [i \in 1..k |-> IF 2 * DivRem(rem, den, i - 1) >= den THEN 1 ELSE 0]

\* the natural number a bit sequence spells (at most 20 bits at a time)
RECURSIVE BitsValue(_)
BitsValue(bits) ==
    IF Len(bits) = 0 THEN 0
    ELSE IF Len(bits) = 1 THEN bits[1]
    ELSE LET low == Len(bits) \div 2
             high == Len(bits) - low
         IN  BitsValue(SubSeq(bits, 1, high)) * (2 ^ low)
               + BitsValue(SubSeq(bits, high + 1, Len(bits)))

\* the bits of a natural number, in the given width
NatBits(value, width) ==
    [k \in 1..width |-> (value \div (2 ^ (width - k))) % 2]

\* the number of bits of a positive natural number below 2^31
BitLength(value) == CHOOSE w \in 1..31 : value \div (2 ^ (w - 1)) = 1

\* the exact product of a significand of 41 to 60 bits and 100, worked in
\* limbs of 20 bits
Limb == 20

Times100(bits) ==
    LET n == Len(bits)
        low == 100 * BitsValue(SubSeq(bits, n - Limb + 1, n))
        mid == 100 * BitsValue(SubSeq(bits, n - 2 * Limb + 1, n - Limb))
                 + low \div (2 ^ Limb)
        high == 100 * BitsValue(SubSeq(bits, 1, n - 2 * Limb))
                 + mid \div (2 ^ Limb)
    IN  NatBits(high, BitLength(high))
          \o NatBits(mid % (2 ^ Limb), Limb)
          \o NatBits(low % (2 ^ Limb), Limb)

\* the double nearest to num / den, for 0 < num < den
Quotient(num, den) ==
    LET zeros == LeadingZeros(num, den)
        first == num * (2 ^ zeros)
        rest == DivRem(first, den, Precision)
        cmp == IF 2 * rest > den THEN 1 ELSE IF 2 * rest = den THEN 0 ELSE -1
    IN  [bits |-> RoundNearestEven(DivBits(first, den, Precision), cmp),
         scale |-> zeros + Precision]

\* the double nearest to 100 times the double x
Product100(x) ==
    LET exact == Times100(x.bits)
        kept == SubSeq(exact, 1, Precision)
        dropped == SubSeq(exact, Precision + 1, Len(exact))
        cmp == IF dropped[1] = 0 THEN -1
               ELSE IF \A k \in 2..Len(dropped) : dropped[k] = 0 THEN 0 ELSE 1
    IN  [bits |-> RoundNearestEven(kept, cmp) \o Zeros(Len(dropped)),
         scale |-> x.scale]

\* Math.round of a positive double below 128: the nearest integer, a tie
\* going up
MathRound(x) ==
    LET whole == Len(x.bits) - x.scale
    IN  IF whole < 0 THEN 0
        ELSE BitsValue(SubSeq(x.bits, 1, whole)) + x.bits[whole + 1]

\* total > 0 ? Math.round((correct / total) * 100) : 0, for correct <= total
Percentage(correct, total) ==
    IF total = 0 \/ correct = 0 THEN 0
    ELSE IF correct = total THEN 100
    ELSE MathRound(Product100(Quotient(correct, total)))

\* a scorer whose percentage is taken over the answered questions
StatsOverAnswered(qs, ans) ==
    LET total == Len(qs)
        answered == Cardinality(DOMAIN ans)
        correct == Cardinality({id \in DOMAIN ans : ans[id].isCorrect})
    IN  [total |-> total,
         answered |-> answered,
         correct |-> correct,
         incorrect |-> answered - correct,
         unanswered |-> total - answered,
         percentage |-> Percentage(correct, answered)]

\* ResultsScreen's stats, of its questions prop and the answers it read
\* stats that count every question not answered correctly as incorrect
StatsIncorrectOfTotal(qs, ans) ==
    LET total == Len(qs)
        answered == Cardinality(DOMAIN ans)
        correct == Cardinality({id \in DOMAIN ans : ans[id].isCorrect})
    IN  [total |-> total,
         answered |-> answered,
         correct |-> correct,
         incorrect |-> total - correct,
         unanswered |-> total - answered,
         percentage |-> Percentage(correct, total)]

Stats(qs, ans) ==
    LET total == Len(qs)
        answered == Cardinality(DOMAIN ans)
        correct == Cardinality({id \in DOMAIN ans : ans[id].isCorrect})
    IN  [total |-> total,
         answered |-> answered,
         correct |-> correct,
         incorrect |-> answered - correct,
         unanswered |-> total - answered,
         percentage |-> Percentage(correct, total)]

\* the stats of the mounted ResultsScreen
stats == Stats(selectedQuestions, resultsAnswers)

\* a getPerformanceMessage whose lower bounds are exclusive
getPerformanceMessageExclusive(percentage) ==
    IF percentage > 90
    THEN [text |-> "Excellent!", color |-> "text-green-600", bg |-> "bg-green-100"]
    ELSE IF percentage > 75
    THEN [text |-> "Great Job!", color |-> "text-emerald-600", bg |-> "bg-emerald-100"]
    ELSE IF percentage > 60
    THEN [text |-> "Good Effort!", color |-> "text-blue-600", bg |-> "bg-blue-100"]
    ELSE IF percentage > 40
    THEN [text |-> "Keep Practicing!", color |-> "text-amber-600", bg |-> "bg-amber-100"]
    ELSE [text |-> "Need More Practice", color |-> "text-red-600", bg |-> "bg-red-100"]

\* getPerformanceMessage, with the stats.percentage it reads as its argument
getPerformanceMessage(percentage) ==
    IF percentage >= 90
    THEN [text |-> "Excellent!", color |-> "text-green-600", bg |-> "bg-green-100"]
    ELSE IF percentage >= 75
    THEN [text |-> "Great Job!", color |-> "text-emerald-600", bg |-> "bg-emerald-100"]
    ELSE IF percentage >= 60
    THEN [text |-> "Good Effort!", color |-> "text-blue-600", bg |-> "bg-blue-100"]
    ELSE IF percentage >= 40
    THEN [text |-> "Keep Practicing!", color |-> "text-amber-600", bg |-> "bg-amber-100"]
    ELSE [text |-> "Need More Practice", color |-> "text-red-600", bg |-> "bg-red-100"]

\* the band the mounted ResultsScreen displays
performance == getPerformanceMessage(stats.percentage)

(***************************************************************************)
(* The state of a loaded application showing the setup form.               *)
(***************************************************************************)
FormState(n, start, end, m, sh) ==
    /\ questions = QuestionBank(n)
    /\ quizState = "setup"
    /\ quizConfig = Null
    /\ selectedQuestions = <<>>
    /\ loading = FALSE
    /\ mode = m
    /\ shuffle = sh
    /\ startQuestion = start
    /\ endQuestion = end
    /\ error = Null
    /\ currentIndex = 0
    /\ answers = <<>>
    /\ showConfirmDialog = FALSE
    /\ flaggedQuestions = {}
    /\ autoAdvanceTimer = NoTimer
    /\ timers = {}
    /\ localStorage = Null
    /\ resultsAnswers = <<>>
    /\ lastOp = "configure"
    /\ cancelled = FALSE

\* handleStart as a function of the form: any totalQuestions and any range
InitConfigure ==
    \E n \in 0..MaxBank, start \in 0..(MaxBank + 1), end \in 0..(MaxBank + 1),
       m \in {"practice", "exam"}, sh \in BOOLEAN :
        FormState(n, start, end, m, sh)

\* shuffleArray over every selection of a small store, with every draw
InitShuffle ==
    \E n \in 0..MaxShuffled, start \in 1..MaxShuffled, end \in 1..MaxShuffled,
       m \in {"practice", "exam"}, sh \in BOOLEAN :
        /\ start <= end
        /\ end <= n
        /\ FormState(n, start, end, m, sh)

\* the answers of a session in which the first `correct` questions were
\* answered with their correct option and the following ones, up to
\* `answered`, with a wrong one
AnswersGiven(qs, answered, correct) ==
    [id \in {qs[k].id : k \in 1..answered} |->
        LET q == CHOOSE x \in {qs[k] : k \in 1..answered} : x.id = id
            right == \E k \in 1..correct : qs[k].id = id
            option == IF right THEN q.correctAnswer
                      ELSE IF q.correctAnswer = "A" THEN "B" ELSE "A"
        IN  [questionId |-> id, selectedOption |-> option, isCorrect |-> right]]

\* QuizScreen at the last question of n, reached by its navigator dot, with
\* the first `answered` questions answered
ScoreState(n, answered, correct, m) ==
    /\ questions = QuestionBank(n)
    /\ quizState = "quiz"
    /\ quizConfig = Some([mode |-> m, shuffle |-> FALSE,
                          startQuestion |-> 1, endQuestion |-> n])
    /\ selectedQuestions = QuestionBank(n)
    /\ loading = FALSE
    /\ mode = "practice"
    /\ shuffle = FALSE
    /\ startQuestion = 1
    /\ endQuestion = 0
    /\ error = Null
    /\ currentIndex = n - 1
    /\ answers = AnswersGiven(QuestionBank(n), answered, correct)
    /\ showConfirmDialog = FALSE
    /\ flaggedQuestions = {}
    /\ autoAdvanceTimer = IF answered > 0 THEN Handle ELSE NoTimer
    /\ timers = {}
    /\ localStorage = IF answered > 0 THEN Some(answers) ELSE Null
    /\ resultsAnswers = <<>>
    /\ lastOp = "jump"
    /\ cancelled = FALSE

\* the scorer over sessions of up to MaxScored questions
InitScore ==
    \E n \in MinSelected..MaxScored, m \in {"practice", "exam"} :
        \E answered \in 0..n :
            \E correct \in 0..answered : ScoreState(n, answered, correct, m)

NextScore ==
    \/ HandleFinishClick
    \/ DialogContinue
    \/ DialogFinishNow

\* one session over the largest store in store order, from the form on
InitSession ==
    \E m \in {"practice", "exam"} :
        FormState(MaxQuestions, 1, MaxQuestions, m, FALSE)

NextSession ==
    \/ HandleStart
    \/ HandleAnswer
    \/ TimerFire
    \/ HandlePrevious
    \/ HandleSkip
    \/ JumpTo
    \/ ToggleFlag

HandleStartAnyOrder == handleStart(TRUE)

Next ==
    \/ LoadSuccess
    \/ LoadFailure
    \/ SetMode
    \/ SetShuffle
    \/ SlideStart
    \/ SlideEnd
    \/ HandleStart
    \/ HandleAnswer
    \/ TimerFire
    \/ HandlePrevious
    \/ HandleSkip
    \/ JumpTo
    \/ ToggleFlag
    \/ HandleFinishClick
    \/ DialogContinue
    \/ DialogFinishNow
    \/ RestartQuiz

Spec == Init /\ [][Next]_vars

SpecConfigure == InitConfigure /\ [][HandleStart]_vars

SpecShuffle == InitShuffle /\ [][HandleStartAnyOrder]_vars

SpecScore == InitScore /\ [][NextScore]_vars

\* The browser runs the callback of a timer that is due and was not
\* cleared: the event loop does not starve a pending callback.
SpecSession == InitSession /\ [][NextSession]_vars /\ WF_vars(TimerFire)

(***************************************************************************)
(* Properties.                                                             *)
(***************************************************************************)
config == quizConfig[1]

OrderMessage == <<"Start question must be less than or equal to end question">>

\* the ids of a sequence of questions, in order
IdsOf(qs) == [k \in 1..Len(qs) |-> qs[k].id]

\* the number of positions of qs that hold the id
Occurrences(qs, id) == Cardinality({k \in 1..Len(qs) : qs[k].id = id})

\* every ordering of a set, as sequences
RECURSIVE Orderings(_)
Orderings(S) ==
    IF S = {} THEN {<<>>}
    ELSE UNION {{<<x>> \o rest : rest \in Orderings(S \ {x})} : x \in S}

\* C1: the view starts at setup and changes only setup -> quiz by a start,
\* quiz -> results by a finish, results -> setup by a restart.
ViewTransition ==
    \/ quizState' = quizState
    \/ quizState = "setup" /\ quizState' = "quiz" /\ lastOp' = "start"
    \/ quizState = "quiz" /\ quizState' = "results"
          /\ lastOp' \in {"finish", "finishNow"}
    \/ quizState = "results" /\ quizState' = "setup" /\ lastOp' = "restart"

C1_ViewTransitions == (quizState = "setup") /\ [][ViewTransition]_vars

\* a whole cycle setup -> quiz -> results -> setup has run
C1_Witness == quizState = "setup" /\ lastOp = "restart" /\ localStorage # Null

\* C2: pressing start with a range that breaks one of the four rules sets an
\* error naming a rule the range breaks (for 10 questions and the range 6..4
\* the "start <= end" one), does not start the quiz and leaves the view in
\* setup with no configuration and no selection.
InvalidConfiguration(start, end, total) ==
    \/ start < 1 \/ start > total
    \/ end < 1 \/ end > total
    \/ start > end
    \/ end - start + 1 < 5

RuleViolated(message, start, end, total) ==
    \/ /\ message = <<"Start question must be between 1 and", total>>
       /\ start < 1 \/ start > total
    \/ /\ message = <<"End question must be between 1 and", total>>
       /\ end < 1 \/ end > total
    \/ /\ message = OrderMessage
       /\ start > end
    \/ /\ message = <<"Please select at least 5 questions">>
       /\ end - start + 1 < 5

StartRejected ==
    (/\ SetupShown
     /\ lastOp' \in {"start", "startRejected"}
     /\ InvalidConfiguration(startQuestion, endQuestion, Len(questions)))
    => /\ lastOp' = "startRejected"
       /\ error' # Null
       /\ RuleViolated(error'[1], startQuestion, endQuestion, Len(questions))
       /\ (Len(questions) = 10 /\ startQuestion = 6 /\ endQuestion = 4)
             => error' = Some(OrderMessage)
       /\ quizState' = "setup"
       /\ quizConfig' = Null
       /\ selectedQuestions' = <<>>

C2_InvalidStartRejected == [][StartRejected]_vars

C2_Witness ==
    /\ lastOp = "startRejected"
    /\ Len(questions) = 10 /\ startQuestion = 6 /\ endQuestion = 4
    /\ error = Some(OrderMessage)
    /\ quizState = "setup" /\ quizConfig = Null /\ selectedQuestions = <<>>

\* C3: the selection a start produces has endQuestion - startQuestion + 1
\* questions and, unshuffled, is the store's questions at the 1-based
\* positions startQuestion..endQuestion in their order.
C3_SelectedRange ==
    quizState = "quiz" =>
        /\ Len(selectedQuestions) = config.endQuestion - config.startQuestion + 1
        /\ ~config.shuffle =>
              \A k \in 1..Len(selectedQuestions) :
                  selectedQuestions[k] = questions[config.startQuestion + k - 1]

C3_Witness ==
    /\ quizState = "quiz" /\ lastOp = "start"
    /\ ~config.shuffle
    /\ config.startQuestion = 3 /\ config.endQuestion = 8
    /\ IdsOf(selectedQuestions) = <<103, 104, 105, 106, 107, 108>>

\* C4: a shuffled selection holds every question of the unshuffled selection
\* exactly as often as that one does, and the draws of the shuffle can
\* produce every ordering of the selection.
C4_ShufflePermutes ==
    /\ (quizState = "quiz" /\ config.shuffle) =>
          LET unshuffled == FilterRange(questions, config)
          IN  /\ Len(selectedQuestions) = Len(unshuffled)
              /\ \A k \in 1..Len(unshuffled) :
                    Occurrences(selectedQuestions, unshuffled[k].id)
                        = Occurrences(unshuffled, unshuffled[k].id)
    /\ (/\ quizState = "setup"
        /\ shuffle
        /\ ValidationError(startQuestion, endQuestion, Len(questions)) = Null) =>
          LET unshuffled == FilterRange(questions, [startQuestion |-> startQuestion,
                                                    endQuestion |-> endQuestion])
          IN  {IdsOf(shuffleArray(unshuffled, rnd)) :
                  rnd \in AllRandom(Len(unshuffled))}
                = Orderings({unshuffled[k].id : k \in 1..Len(unshuffled)})

\* a shuffled start that reversed the selection 2..6
C4_Witness ==
    /\ quizState = "quiz" /\ lastOp = "start"
    /\ config.shuffle
    /\ config.startQuestion = 2 /\ config.endQuestion = 6
    /\ IdsOf(selectedQuestions) = <<106, 105, 104, 103, 102>>

\* C5: while the view is quiz or results the configuration is set, its range
\* lies in the store and selects at least 5 questions, and the selection is
\* not empty; so the store holds at least 5 questions.
C5_SessionContext ==
    quizState \in {"quiz", "results"} =>
        /\ quizConfig # Null
        /\ 1 <= config.startQuestion
        /\ config.startQuestion <= config.endQuestion
        /\ config.endQuestion <= Len(questions)
        /\ config.endQuestion - config.startQuestion + 1 >= 5
        /\ selectedQuestions # <<>>
        /\ Len(questions) >= 5

C5_Witness ==
    /\ quizState = "results" /\ lastOp = "finishNow"
    /\ quizConfig # Null /\ Len(selectedQuestions) = 5

\* C6 as claimed: in both modes a question that has an answer keeps its
\* selected option and its correctness for the rest of the session.
AnswersKept ==
    \A id \in DOMAIN answers :
        /\ id \in DOMAIN answers'
        /\ answers'[id].selectedOption = answers[id].selectedOption
        /\ answers'[id].isCorrect = answers[id].isCorrect

C6_SingleWriteBothModes ==
    [][(quizState = "quiz" /\ quizState' = "quiz") => AnswersKept]_vars

\* C6: in practice mode a question that has an answer keeps its selected
\* option and its correctness for the rest of the session, also after the
\* user has navigated away and back.
C6_SingleWritePractice ==
    [][(quizState = "quiz" /\ quizState' = "quiz" /\ config.mode = "practice")
          => AnswersKept]_vars

\* back on an answered question in practice mode, its timer gone
C6_Witness ==
    /\ QuizShown /\ config.mode = "practice"
    /\ lastOp = "previous"
    /\ isAnswered
    /\ optionDisabled

\* C7: after an answer is recorded the store holds exactly the current
\* answers mapping.
C7_WriteThrough ==
    lastOp = "answer" => localStorage = Some(answers)

C7_Witness ==
    /\ lastOp = "answer"
    /\ answeredCount >= 2
    /\ localStorage = Some(answers)

\* C8: when an auto-advance moves the position, the store already holds the
\* record of the answer that scheduled it.
AdvanceAfterWrite ==
    (lastOp' = "autoAdvance" /\ currentIndex' # currentIndex) =>
        \A t \in timers \ timers' :
            LET id == selectedQuestions[t.currentIndex + 1].id
            IN  /\ localStorage # Null
                /\ id \in DOMAIN answers
                /\ id \in DOMAIN localStorage[1]
                /\ localStorage[1][id] = answers[id]

C8_PersistBeforeAdvance == [][AdvanceAfterWrite]_vars

\* an auto-advance has moved the position off an answered, stored question
C8_Witness ==
    /\ QuizShown /\ lastOp = "autoAdvance"
    /\ currentIndex >= 1 /\ currentIndex < totalQuestions - 1
    /\ localStorage # Null
    /\ selectedQuestions[currentIndex].id \in DOMAIN localStorage[1]

\* C9: a pending auto-advance belongs to the current position: previous and
\* skip leave none pending, and no manual change of position leaves one
\* that was scheduled at another position.
C9_NavigationCancels ==
    /\ \A t \in timers : QuizShown /\ t.currentIndex = currentIndex
    /\ lastOp \in {"previous", "skip"} => timers = {}

\* previous was pressed while an auto-advance was pending
C9_Witness ==
    /\ QuizShown /\ lastOp = "previous"
    /\ cancelled
    /\ timers = {}
    /\ autoAdvanceTimer # NoTimer

\* C10: no auto-advance is pending once finish was requested, nor while the
\* view is results or setup.
C10_NoTimerOutsideSession ==
    /\ quizState # "quiz" => timers = {}
    /\ lastOp \in {"finishRequested", "finish", "finishNow", "restart"}
          => timers = {}

\* finish was pressed while the last answer's auto-advance was pending
C10_Witness ==
    /\ quizState = "results" /\ lastOp = "finish"
    /\ cancelled
    /\ timers = {}

\* C11: the view moves from quiz to results with a selected question
\* unanswered only by "Finish Now" in a dialog that a finish request opened;
\* "Continue Quiz" closes the dialog and keeps the view in quiz, so a later
\* finish takes a new request; with every question answered the finish
\* request shows the results at once, without the dialog.
FinishConfirmed ==
    /\ (quizState = "quiz" /\ quizState' = "results" /\ ~allAnswered) =>
          /\ showConfirmDialog
          /\ lastOp = "finishRequested"
          /\ lastOp' = "finishNow"
    /\ lastOp' = "continue" =>
          /\ quizState' = "quiz"
          /\ ~showConfirmDialog'
    /\ (lastOp' = "finishRequested" /\ quizState = "quiz") =>
          /\ ~allAnswered
          /\ quizState' = "quiz"
          /\ showConfirmDialog'
    /\ (lastOp' = "finish" /\ quizState = "quiz") =>
          /\ allAnswered
          /\ ~showConfirmDialog
          /\ quizState' = "results"

C11_FinishConfirmed ==
    (~showConfirmDialog) /\ [][FinishConfirmed]_vars

\* the results of a session finished through the dialog, questions unanswered
C11_Witness ==
    /\ quizState = "results" /\ lastOp = "finishNow"
    /\ Cardinality(DOMAIN resultsAnswers) < Len(selectedQuestions)
    /\ Cardinality(DOMAIN resultsAnswers) > 0

\* C12: in every session, one after a restart and one without any answer
\* included, the mapping ResultsScreen reads when the results are shown is
\* the final answers mapping of the QuizScreen that finished.
ResultsReadFinalAnswers ==
    (quizState = "quiz" /\ quizState' = "results") =>
        /\ resultsAnswers' = answers
        /\ localStorage' = Some(answers)

C12_ResultsReadFinalAnswers == [][ResultsReadFinalAnswers]_vars

\* a session finished through the dialog without any answer: the results
\* read the empty mapping that the finish request stored
C12_Witness ==
    /\ quizState = "results" /\ lastOp = "finishNow"
    /\ resultsAnswers = <<>>
    /\ localStorage = Some(<<>>)

\* the nearest integer to num / den, a tie going up, in exact arithmetic
RoundHalfUp(num, den) == (2 * num + den) \div (2 * den)

\* C13: the results show total = n, answered = the number of ids in the
\* answers, correct = the number of correct records, incorrect = answered -
\* correct, unanswered = total - answered, and percentage = correct / total
\* * 100 rounded to the nearest integer, over the total and not the answered.
C13_ScorerAsClaimed ==
    quizState = "results" =>
        LET n == Len(selectedQuestions)
            answered == Cardinality(DOMAIN resultsAnswers)
            correct == Cardinality({id \in DOMAIN resultsAnswers :
                                       resultsAnswers[id].isCorrect})
        IN  /\ stats.total = n
            /\ stats.answered = answered
            /\ stats.correct = correct
            /\ stats.incorrect = answered - correct
            /\ stats.unanswered = n - answered
            /\ stats.percentage = RoundHalfUp(100 * correct, n)

\* the session of 5 questions with Q1 and Q5 answered correctly, Q2
\* incorrectly, Q3 and Q4 left unanswered, and the given questions flagged
ExampleSession(flagged) ==
    /\ QuizShown
    /\ Len(selectedQuestions) = 5
    /\ DOMAIN answers = {selectedQuestions[k].id : k \in {1, 2, 5}}
    /\ answers[selectedQuestions[1].id].isCorrect
    /\ ~answers[selectedQuestions[2].id].isCorrect
    /\ answers[selectedQuestions[5].id].isCorrect
    /\ flaggedQuestions = flagged

ExampleStats ==
    [total |-> 5, answered |-> 3, correct |-> 2, incorrect |-> 1,
     unanswered |-> 2, percentage |-> 40]

\* the answers of ExampleSession as the results screen has read them
ExampleResults ==
    /\ quizState = "results"
    /\ Len(selectedQuestions) = 5
    /\ DOMAIN resultsAnswers = {selectedQuestions[k].id : k \in {1, 2, 5}}
    /\ resultsAnswers[selectedQuestions[1].id].isCorrect
    /\ ~resultsAnswers[selectedQuestions[2].id].isCorrect
    /\ resultsAnswers[selectedQuestions[5].id].isCorrect

ExampleFinished(flagged) ==
    ExampleSession(flagged) =>
        /\ lastOp' \in {"finish", "finishRequested"} =>
              /\ lastOp' = "finishRequested"
              /\ showConfirmDialog'
              /\ quizState' = "quiz"
        /\ quizState' = "results" =>
              /\ lastOp' = "finishNow"
              /\ ExampleResults'

\* C14: in a session of 5 questions with Q1 answered correctly, Q2
\* incorrectly, Q3 skipped, Q4 flagged and skipped and Q5 answered correctly,
\* a finish request opens the confirmation dialog, and on "Finish Now" the
\* results show total 5, answered 3, correct 2, incorrect 1, unanswered 2,
\* percentage 40; the same holds without the flag on Q4.
C14_ExampleScored ==
    /\ [](ExampleResults => stats = ExampleStats)
    /\ [][/\ ExampleFinished({selectedQuestions[4].id})
          /\ ExampleFinished({})]_vars

\* the results of that session
C14_Witness ==
    /\ quizState = "results" /\ lastOp = "finishNow"
    /\ Len(selectedQuestions) = 5
    /\ ExampleResults
    /\ stats = ExampleStats

\* every selected question has a record holding its correct option
AllAnsweredCorrectly ==
    \A k \in 1..Len(selectedQuestions) :
        /\ selectedQuestions[k].id \in DOMAIN resultsAnswers
        /\ resultsAnswers[selectedQuestions[k].id].selectedOption
              = selectedQuestions[k].correctAnswer

\* C15: the results of a session in which every question ended answered
\* with its correct option show percentage 100, correct = n, incorrect 0
\* and unanswered 0, in both modes, shuffled or not.
C15_AllCorrectScoresFull ==
    (quizState = "results" /\ AllAnsweredCorrectly) =>
        /\ stats.percentage = 100
        /\ stats.correct = Len(selectedQuestions)
        /\ stats.incorrect = 0
        /\ stats.unanswered = 0

\* the results of a shuffled exam session answered correctly throughout
C15_Witness ==
    /\ quizState = "results" /\ lastOp = "finish"
    /\ config.mode = "exam" /\ config.shuffle
    /\ AllAnsweredCorrectly
    /\ stats.percentage = 100

\* C16: a restart leaves the view in setup with no config and an empty
\* selection; the start that follows selects the questions of the new
\* config's range from the store (in store order unless shuffled), and the
\* new session begins at position 0 with no answers and no flags, whatever
\* the previous session left.
C16_RestartStartsAfresh ==
    /\ lastOp = "restart" =>
          /\ quizState = "setup"
          /\ quizConfig = Null
          /\ selectedQuestions = <<>>
    /\ lastOp = "start" =>
          /\ quizState = "quiz"
          /\ currentIndex = 0
          /\ answers = <<>>
          /\ flaggedQuestions = {}
          /\ Len(selectedQuestions) = config.endQuestion - config.startQuestion + 1
          /\ {selectedQuestions[k] : k \in 1..Len(selectedQuestions)}
                = {questions[k] : k \in config.startQuestion..config.endQuestion}
          /\ ~config.shuffle =>
                \A k \in 1..Len(selectedQuestions) :
                    selectedQuestions[k] = questions[config.startQuestion + k - 1]

\* a session started over the store a previous session left
C16_Witness ==
    /\ lastOp = "start"
    /\ localStorage # Null
    /\ localStorage[1] # <<>>
    /\ config.mode = "exam" /\ config.shuffle

\* the load has settled and the store is empty
StoreEmpty == ~loading /\ questions = <<>>

EmptyStoreStays ==
    StoreEmpty =>
        /\ StoreEmpty'
        /\ quizState' = "setup"
        /\ lastOp' \in {"start", "startRejected"} =>
              /\ lastOp' = "startRejected"
              /\ error' # Null
              /\ quizConfig' = Null

\* C17: once the load has failed the store is empty and loading has ended;
\* from then on the store stays empty (no retry), the view stays setup, and
\* every start attempt is rejected by the validation with a message.
C17_FailedLoadNeverStarts ==
    /\ [](lastOp = "loadFailed" => (StoreEmpty /\ quizState = "setup"))
    /\ [][EmptyStoreStays]_vars

\* a start attempted over the empty store, rejected
C17_Witness ==
    /\ StoreEmpty
    /\ lastOp = "startRejected"
    /\ error = Some(<<"Start question must be between 1 and", 0>>)
    /\ quizState = "setup"

AutoAdvanceDue(p) ==
    /\ QuizShown
    /\ lastOp = "answer"
    /\ currentIndex = p
    /\ p < totalQuestions - 1

AutoAdvanced(p) ==
    /\ QuizShown
    /\ lastOp = "autoAdvance"
    /\ currentIndex = p + 1

Navigated == lastOp \in {"previous", "skip", "jump"}

AdvanceByOne ==
    lastOp' = "autoAdvance" =>
        /\ currentIndex' \in {currentIndex, currentIndex + 1}
        /\ currentIndex' # currentIndex =>
              /\ isAnswered
              /\ \E t \in timers : t.currentIndex = currentIndex
              /\ timers' = {}

\* C18: after an answer at a position p that is not the last, unless the
\* user navigates, the auto-advance eventually fires and the position is
\* p + 1; an auto-advance moves the position by at most one, off an answered
\* question, and leaves no callback pending that could move it again.
C18_AutoAdvanceFires ==
    /\ \A p \in 0..(MaxQuestions - 2) :
          AutoAdvanceDue(p) ~> (AutoAdvanced(p) \/ Navigated)
    /\ [][AdvanceByOne]_vars

\* the auto-advance of the first answer has moved the position from 0 to 1
C18_Witness ==
    /\ QuizShown /\ lastOp = "autoAdvance"
    /\ currentIndex = 1
    /\ timers = {}
    /\ DOMAIN answers = {selectedQuestions[1].id}

atLastQuestion == QuizShown /\ currentIndex = totalQuestions - 1

LastAnswerScheduled ==
    /\ QuizShown => currentIndex \in 0..(totalQuestions - 1)
    /\ (atLastQuestion /\ lastOp = "answer") =>
          /\ isAnswered
          /\ localStorage = Some(answers)
          /\ timers = {[held |-> TRUE, currentIndex |-> currentIndex,
                        totalQuestions |-> totalQuestions]}

LastAdvanceNoOp ==
    (atLastQuestion /\ lastOp' = "autoAdvance") =>
        /\ timers # {}
        /\ timers' = {}
        /\ currentIndex' = currentIndex
        /\ quizState' = "quiz"
        /\ UNCHANGED <<answers, flaggedQuestions, showConfirmDialog,
                       autoAdvanceTimer, localStorage, error>>

\* C19: an answer at the last question is recorded and stored and its
\* auto-advance is scheduled; when that callback runs it changes nothing: the
\* position stays at the last index, which the position never exceeds, and
\* the quiz is still shown.
C19_LastAdvanceNoOp ==
    /\ []LastAnswerScheduled
    /\ [][LastAdvanceNoOp]_vars

\* the callback of an answer at the last question has run, the question
\* before it never answered
C19_Witness ==
    /\ atLastQuestion /\ lastOp = "autoAdvance"
    /\ isAnswered
    /\ selectedQuestions[currentIndex].id \notin DOMAIN answers
    /\ timers = {}

\* every navigator dot can be pressed, and lands on its index
EveryDotJumps ==
    (QuizShown /\ ~showConfirmDialog) =>
        \A i \in 0..(totalQuestions - 1) :
            ENABLED (JumpTo /\ currentIndex' = i /\ timers' = {})

JumpCancels ==
    lastOp' = "jump" =>
        /\ currentIndex' \in 0..(totalQuestions - 1)
        /\ timers' = {}
        /\ cancelled' = (timers # {})
        /\ UNCHANGED <<answers, flaggedQuestions, localStorage>>

\* C20: pressing navigator dot i, the dot of the current position included,
\* sets the position to i and leaves no auto-advance pending, whether or not
\* one was pending before; answers and flags are unchanged.
C20_JumpCancels ==
    /\ []EveryDotJumps
    /\ [][JumpCancels]_vars

\* the dot of the current position was pressed while the auto-advance of
\* the only answer was pending
C20_Witness ==
    /\ QuizShown /\ lastOp = "jump"
    /\ cancelled
    /\ DOMAIN answers = {currentQuestion.id}
    /\ timers = {}

\* the handler called whatever the state of its button
SkipCalled ==
    /\ QuizShown
    /\ handleSkip
    /\ UNCHANGED <<appVars, setupVars, answers, showConfirmDialog,
                   flaggedQuestions, autoAdvanceTimer, localStorage,
                   resultsAnswers, lastOp, cancelled>>

PreviousCalled ==
    /\ QuizShown
    /\ handlePrevious
    /\ UNCHANGED <<appVars, setupVars, answers, showConfirmDialog,
                   flaggedQuestions, autoAdvanceTimer, localStorage,
                   resultsAnswers, lastOp, cancelled>>

PositionDefined ==
    QuizShown =>
        /\ currentIndex >= 0
        /\ currentIndex < Len(selectedQuestions)
        /\ currentQuestion \in {questions[k] : k \in 1..Len(questions)}
        /\ atLastQuestion =>
              /\ ENABLED SkipCalled
              /\ ~ENABLED (SkipCalled /\ <<currentIndex, timers>>' # <<currentIndex, timers>>)
        /\ currentIndex = 0 =>
              /\ ENABLED PreviousCalled
              /\ ~ENABLED (PreviousCalled /\ <<currentIndex, timers>>' # <<currentIndex, timers>>)

SkipPreviousStep ==
    /\ lastOp' = "skip" =>
          /\ currentIndex' = currentIndex + 1
          /\ UNCHANGED <<answers, flaggedQuestions, localStorage>>
    /\ lastOp' = "previous" =>
          /\ currentIndex' = currentIndex - 1
          /\ UNCHANGED <<answers, flaggedQuestions, localStorage>>

\* C21: skip moves the position forward by one and previous back by one,
\* neither touching an answer or a flag; handleSkip at the last question
\* and handlePrevious at position 0 change nothing; while the quiz is shown
\* the position is an index of the selection, so the current question is
\* defined.
C21_SkipPreviousFrame ==
    /\ []PositionDefined
    /\ [][SkipPreviousStep]_vars

\* skip has moved off a flagged, unanswered question onto the last one
C21_Witness ==
    /\ atLastQuestion /\ lastOp = "skip"
    /\ selectedQuestions[currentIndex].id \in flaggedQuestions
    /\ selectedQuestions[currentIndex].id \notin DOMAIN answers
    /\ answers # <<>>

FlagsSelected ==
    flaggedQuestions \subseteq
        {selectedQuestions[k].id : k \in 1..Len(selectedQuestions)}

FlagToggled ==
    lastOp' = "flag" =>
        /\ currentQuestion.id \in flaggedQuestions =>
              flaggedQuestions' = flaggedQuestions \ {currentQuestion.id}
        /\ currentQuestion.id \notin flaggedQuestions =>
              flaggedQuestions' = flaggedQuestions \cup {currentQuestion.id}
        /\ UNCHANGED <<answers, currentIndex, localStorage, timers,
                       autoAdvanceTimer, selectedQuestions>>

\* C22: toggleFlag adds the current question's id to the flags when it is
\* absent and removes it when present, so a second toggle at the same
\* position undoes the first; answers, position, store and pending
\* auto-advance are unchanged; every flagged id is the id of a selected
\* question.
C22_ToggleFlagFrame ==
    /\ []FlagsSelected
    /\ [][FlagToggled]_vars

\* the flag was set and cleared again while an auto-advance was pending
C22_Witness ==
    /\ QuizShown /\ lastOp = "flag"
    /\ flaggedQuestions = {}
    /\ timers # {}
    /\ isAnswered

AnsweredIdsGrow ==
    (quizState = "quiz" /\ quizState' = "quiz") =>
        /\ DOMAIN answers \subseteq DOMAIN answers'
        /\ lastOp' # "answer" => answers' = answers
        /\ lastOp' = "answer" =>
              DOMAIN answers' = DOMAIN answers \cup {currentQuestion.id}

\* C23: while the quiz is shown no answer record is deleted: under every
\* operation the set of answered ids stays the same, except that an answer
\* adds the id of the current question.
C23_AnswersNeverDeleted == [][AnsweredIdsGrow]_vars

\* the dialog was dismissed with two answers kept, in exam mode
C23_Witness ==
    /\ QuizShown /\ lastOp = "continue"
    /\ config.mode = "exam"
    /\ answeredCount = 2

\* the record is a well-formed answer to a selected question, filed under id
WellFormed(record, id) ==
    /\ record.questionId = id
    /\ record.selectedOption \in Options
    /\ \E k \in 1..Len(selectedQuestions) :
          /\ selectedQuestions[k].id = id
          /\ record.isCorrect
                = (record.selectedOption = selectedQuestions[k].correctAnswer)

\* C24: every record of the answers mapping is filed under its own
\* questionId, which is the id of a selected question; its selectedOption is
\* one of A, B, C, D and its isCorrect tells whether that option is the
\* question's correct one.
C24_RecordsWellFormed ==
    \A id \in DOMAIN answers : WellFormed(answers[id], id)

\* every question answered, some correctly and some not
C24_Witness ==
    /\ QuizShown /\ lastOp = "answer"
    /\ allAnswered
    /\ \E id \in DOMAIN answers : answers[id].isCorrect
    /\ \E id \in DOMAIN answers : ~answers[id].isCorrect

\* C25: at most one auto-advance is pending at any time, and it is the one
\* of the latest answer: after an answer, one given while an earlier
\* auto-advance was pending included, exactly one is pending, and once an
\* auto-advance has run none is left to move the position again.
C25_OneTimerPending ==
    /\ Cardinality(timers) <= 1
    /\ \A t \in timers : t.held /\ autoAdvanceTimer = Handle
    /\ lastOp = "answer" => Cardinality(timers) = 1
    /\ lastOp = "autoAdvance" => timers = {}

\* a question was answered again in exam mode while the auto-advance of its
\* earlier answer was pending
C25_Witness ==
    /\ QuizShown /\ lastOp = "answer"
    /\ config.mode = "exam"
    /\ cancelled
    /\ Cardinality(timers) = 1
    /\ ~atLastQuestion

\* the bands from the lowest to the highest, each with its lowest percentage
Bands ==
    << [text |-> "Need More Practice", from |-> 0],
       [text |-> "Keep Practicing!", from |-> 40],
       [text |-> "Good Effort!", from |-> 60],
       [text |-> "Great Job!", from |-> 75],
       [text |-> "Excellent!", from |-> 90] >>

Percentages == 0..100

\* the bands whose range, from its own lower bound up to the next band's,
\* holds the percentage
BandsOf(p) ==
    {i \in DOMAIN Bands :
        /\ Bands[i].from <= p
        /\ i < Len(Bands) => p < Bands[i + 1].from}

\* the position in Bands of the band getPerformanceMessage gives a percentage
BandRank ==
    [p \in Percentages |->
        CHOOSE i \in DOMAIN Bands : Bands[i].text = getPerformanceMessage(p).text]

\* every percentage has exactly one band, the one getPerformanceMessage
\* returns, and a higher percentage never has a lower band
BandsTotalOrdered ==
    /\ \A p \in Percentages :
          /\ Cardinality(BandsOf(p)) = 1
          /\ \A i \in BandsOf(p) : getPerformanceMessage(p).text = Bands[i].text
    /\ \A p, q \in Percentages : p <= q => BandRank[p] <= BandRank[q]

\* C26: every percentage from 0 to 100 has exactly one band, the highest
\* whose inclusive lower bound (90, 75, 60, 40, 0) it reaches, and a higher
\* percentage never has a lower band; the results screen shows the band of
\* the percentage it shows, which lies in 0..100.
C26_PerformanceBands ==
    ResultsShown =>
        /\ BandsTotalOrdered
        /\ \A shown \in {stats.percentage} :
              /\ shown \in Percentages
              /\ \A i \in BandsOf(shown) :
                    performance.text = Bands[i].text

\* results that show a percentage on a band's lower bound
C26_Witness ==
    /\ ResultsShown
    /\ stats.total = 8 /\ stats.correct = 6
    /\ stats.percentage = 75
    /\ performance.text = "Great Job!"

\* once the load has settled no step changes the store
StoreKept == ~loading => (questions' = questions /\ ~loading')

\* from a start until the restart no step changes the config or the selection
SessionKept ==
    (quizState # "setup" /\ quizState' # "setup") =>
        UNCHANGED <<quizConfig, selectedQuestions>>

\* a start, the first or one after a restart, builds its selection from the
\* store and the form: the questions of the range, in store order unless
\* shuffled
FreshSelection ==
    (quizState = "setup" /\ quizState' = "quiz") =>
        /\ quizConfig = Null /\ selectedQuestions = <<>>
        /\ quizConfig' = Some([mode |-> mode, shuffle |-> shuffle,
                               startQuestion |-> startQuestion,
                               endQuestion |-> endQuestion])
        /\ Len(selectedQuestions') = endQuestion - startQuestion + 1
        /\ \A k \in startQuestion..endQuestion :
              Occurrences(selectedQuestions', questions[k].id) = 1
        /\ ~shuffle => selectedQuestions' = SubSeq(questions, startQuestion, endQuestion)

\* C27: after the load no step changes the question store; between a start
\* and the restart no step (answer, auto-advance, navigation, flag, finish)
\* changes the config or the selection, members and order; and each start,
\* one after a restart included, selects afresh from the unchanged store.
C27_StoreAndSelectionKept ==
    [][StoreKept /\ SessionKept /\ FreshSelection]_vars

\* a session started in store order after a restart (the store of the previous
\* session is still saved) that has moved two positions on
C27_Witness ==
    /\ QuizShown /\ lastOp = "skip"
    /\ currentIndex = 2
    /\ answers = <<>>
    /\ localStorage # Null
    /\ localStorage[1] # <<>>
    /\ ~config.shuffle
    /\ selectedQuestions = questions
    /\ IdsOf(selectedQuestions) = <<101, 102, 103, 104, 105>>

\* while the quiz is shown the finish button is there at the last position
\* and only there, the skip button at every other position and only there,
\* and the finish dialog is open at the last position only
FinishControlAtLast ==
    QuizShown =>
        /\ showConfirmDialog => atLastQuestion
        /\ ~showConfirmDialog =>
              /\ ENABLED HandleFinishClick <=> atLastQuestion
              /\ ENABLED HandleSkip <=> ~atLastQuestion
        /\ ENABLED DialogFinishNow => atLastQuestion

\* a step from the quiz to the results is a finish taken at the last position
FinishedAtLast ==
    (quizState = "quiz" /\ quizState' = "results") =>
        /\ currentIndex = Len(selectedQuestions) - 1
        /\ lastOp' \in {"finish", "finishNow"}

\* C28: finishing can be requested only at the last position of the
\* selection (elsewhere the button is Skip), and every step from quiz to
\* results is taken with currentIndex = Len(selectedQuestions) - 1.
C28_FinishOnlyAtLast ==
    /\ []FinishControlAtLast
    /\ [][FinishedAtLast]_vars

\* results of a shuffled exam in which nothing was answered: every position
\* before the last offered Skip only
C28_Witness ==
    /\ ResultsShown /\ lastOp = "finishNow"
    /\ config.mode = "exam" /\ config.shuffle
    /\ Len(selectedQuestions) = 5
    /\ resultsAnswers = <<>>

\* C29: whenever results are shown, in the first session or a later one,
\* the stats satisfy 0 <= correct <= answered <= total, incorrect >= 0,
\* unanswered >= 0, correct + incorrect + unanswered = total and
\* 0 <= percentage <= 100.
C29_StatsConsistent ==
    ResultsShown =>
        \A shown \in {stats} :
            /\ 0 <= shown.correct
            /\ shown.correct <= shown.answered
            /\ shown.answered <= shown.total
            /\ shown.incorrect >= 0
            /\ shown.unanswered >= 0
            /\ shown.correct + shown.incorrect + shown.unanswered = shown.total
            /\ 0 <= shown.percentage
            /\ shown.percentage <= 100

\* results of a session with correct, incorrect and unanswered questions
C29_Witness ==
    /\ ResultsShown /\ lastOp = "finishNow"
    /\ config.mode = "practice"
    /\ stats = [total |-> 5, answered |-> 3, correct |-> 1, incorrect |-> 2,
                unanswered |-> 2, percentage |-> 20]

\* C30: while a quiz session is shown, from its start until its results,
\* every question id keyed in the saved store is the id of a question
\* answered in this session, and the record saved for it is this session's.
C30_StoreOfThisSession ==
    QuizShown =>
        \A id \in DOMAIN ReadStore(localStorage) :
            /\ id \in DOMAIN answers
            /\ ReadStore(localStorage)[id] = answers[id]
====
